---- MODULE Spec2Model ----
(***************************************************************************)
(* A model of grython.core.Pattern: the selector compiler (Pattern.parse   *)
(* and Pattern.__parse, a regular-expression scanner over each segment)    *)
(* and the tree matcher (Pattern.update, a nest of Python generators).     *)
(*                                                                         *)
(* Text is a sequence of one-character strings.  Positions inside the      *)
(* scanner are 1-based indices into that sequence; the spans reported in   *)
(* errors are 0-based like Python's match.span().                          *)
(***************************************************************************)
EXTENDS Integers, Sequences, FiniteSets, TLC

VARIABLES
    text,      \* the selector string handed to Pattern(...) (built by typing)
    phase,     \* "typing" | "compiled" | "build" | "iter"
    result,    \* outcome of the last Pattern(...) call: chain or exception
    raw,       \* self.__raw
    pattern,   \* self.__pattern, the chain the matcher reads
    tree,      \* the document under rootnode: nodes in document order
    gen,       \* the generator object returned by update(rootnode)
    out,       \* the nodes the consumer has pulled so far
    bound,     \* the chain that was in place when update was called
    replaced,  \* whether the setter replaced the chain after update was called
    npieces    \* how many pieces of the vocabulary the selector was typed from

vars == <<text, phase, result, raw, pattern, tree, gen, out, bound, replaced,
          npieces>>

-----------------------------------------------------------------------------
(* Character classes of the regular expressions in Pattern.TAGS.           *)

Whitespace == {" "}
Letters    == {"a", "b", "c", "d", "i", "l", "n", "p", "s", "v", "x"}
Digits     == {"0", "1", "2", "3", "4", "5", "6", "7", "8", "9"}
Quotes     == {"'", "\""}
\* \w
WordChars  == Letters \cup Digits \cup {"_"}
\* [\w-]
NameChars  == WordChars \cup {"-"}

\* the character at position i, or "" past the end of the string
At(s, i) == IF i >= 1 /\ i <= Len(s) THEN s[i] ELSE ""

\* greedy repetition: the first position at or after p whose character is
\* not in S
RECURSIVE RunEnd(_, _, _)
RunEnd(s, p, S) == IF At(s, p) \in S THEN RunEnd(s, p + 1, S) ELSE p

\* lazy search: the least j >= from with s[j] = c1 and, unless c2 is "",
\* s[j+1] = c2; 0 when there is none
RECURSIVE FirstAt(_, _, _, _)
FirstAt(s, from, c1, c2) ==
    IF from > Len(s) THEN 0
    ELSE IF At(s, from) = c1 /\ (c2 = "" \/ At(s, from + 1) = c2) THEN from
    ELSE FirstAt(s, from + 1, c1, c2)

\* the least j >= from with s[j] in S, or 0
RECURSIVE FirstIn(_, _, _)
FirstIn(s, from, S) ==
    IF from > Len(s) THEN 0
    ELSE IF s[from] \in S THEN from
    ELSE FirstIn(s, from + 1, S)

NoMatch == 0

\* 'attrs': \[(['"]?)[a-zA-Z][\w-]*\2(=(['"]?).+?\4)?\]
\* the position after the match, or NoMatch
MatchAttrs(s, p) ==
    IF At(s, p) # "[" THEN NoMatch
    ELSE
      LET q  == IF At(s, p + 1) \in Quotes THEN 1 ELSE 0     \* group 2
          i0 == p + 1 + q
      IN IF At(s, i0) \notin Letters THEN NoMatch
         ELSE
           LET e == RunEnd(s, i0 + 1, NameChars)
           IN IF q = 1 /\ At(s, e) # At(s, p + 1) THEN NoMatch   \* \2
              ELSE
                LET k == e + q
                IN IF At(s, k) = "]" THEN k + 1
                   ELSE IF At(s, k) # "=" THEN NoMatch
                   ELSE
                     \* group 4 takes a quote when there is one; .+? then
                     \* grows until the same quote and "]" follow
                     LET jq == IF At(s, k + 1) \in Quotes
                               THEN FirstAt(s, k + 3, At(s, k + 1), "]")
                               ELSE 0
                         \* group 4 empty: .+? grows until "]" follows
                         jn == FirstAt(s, k + 2, "]", "")
                     IN IF jq # 0 THEN jq + 2
                        ELSE IF jn # 0 THEN jn + 1
                        ELSE NoMatch

\* 'class': \.[\w-]+
MatchClass(s, p) ==
    IF At(s, p) = "." /\ At(s, p + 1) \in NameChars
    THEN RunEnd(s, p + 1, NameChars) ELSE NoMatch

\* 'id': #[\w-]+
MatchId(s, p) ==
    IF At(s, p) = "#" /\ At(s, p + 1) \in NameChars
    THEN RunEnd(s, p + 1, NameChars) ELSE NoMatch

\* 'name': [\w-]+
MatchName(s, p) ==
    IF At(s, p) \in NameChars THEN RunEnd(s, p, NameChars) ELSE NoMatch

\* 'rank': \[\d+\]
MatchRank(s, p) ==
    IF At(s, p) = "[" /\ At(s, p + 1) \in Digits
       /\ At(s, RunEnd(s, p + 1, Digits)) = "]"
    THEN RunEnd(s, p + 1, Digits) + 1 ELSE NoMatch

\* scanner.match at position p: the alternatives of '|'.join(TAGS.values())
\* in the order of the dictionary; lastgroup names the one that matched
\* ends[g] is where alternative g would end
FirstAlternative(p, ends) ==
    IF ends[1] # NoMatch
      THEN [lastgroup |-> "attrs", start |-> p, end |-> ends[1]]
    ELSE IF ends[2] # NoMatch
      THEN [lastgroup |-> "class", start |-> p, end |-> ends[2]]
    ELSE IF ends[3] # NoMatch
      THEN [lastgroup |-> "id", start |-> p, end |-> ends[3]]
    ELSE IF ends[4] # NoMatch
      THEN [lastgroup |-> "name", start |-> p, end |-> ends[4]]
    ELSE IF ends[5] # NoMatch
      THEN [lastgroup |-> "rank", start |-> p, end |-> ends[5]]
    ELSE [lastgroup |-> "none", start |-> p, end |-> NoMatch]

ScannerMatch(s, p) ==
    FirstAlternative(p, <<MatchAttrs(s, p), MatchClass(s, p), MatchId(s, p),
                          MatchName(s, p), MatchRank(s, p)>>)

\* the matches iter(scanner.match, None) produces from position p on;
\* MatchesAfter is given the match at p
RECURSIVE Matches(_, _), MatchesAfter(_, _)
MatchesAfter(s, m) ==
    IF m.end = NoMatch THEN <<>> ELSE <<m>> \o Matches(s, m.end)

Matches(s, p) == MatchesAfter(s, ScannerMatch(s, p))

\* match.group()
Group(s, m) == SubSeq(s, m.start, m.end - 1)

\* match.span(), 0-based
Span(m) == <<m.start - 1, m.end - 1>>

-----------------------------------------------------------------------------
(* The values of info['attrs'].  Python stores True, a str or a list under *)
(* a key; kind says which.                                                  *)

PyTrue      == [kind |-> "bool", str |-> <<>>, list |-> <<>>]
PyStr(v)    == [kind |-> "str",  str |-> v,    list |-> <<>>]
PyList(l)   == [kind |-> "list", str |-> <<>>, list |-> l]

\* d[k] = v
DictSet(d, k, v) == [x \in (DOMAIN d) \cup {k} |-> IF x = k THEN v ELSE d[x]]

\* the 'rank' key is absent from info until a rank sub-token is parsed
NoRank == -1

\* re.sub(r'[\'"\[\]]', '', text)
RECURSIVE StripQuotesBrackets(_)
StripQuotesBrackets(s) ==
    IF s = <<>> THEN <<>>
    ELSE IF Head(s) \in Quotes \cup {"[", "]"} THEN StripQuotesBrackets(Tail(s))
    ELSE <<Head(s)>> \o StripQuotesBrackets(Tail(s))

\* text.split('=', 1): <<key>> or <<key, value>>
SplitEq(s) ==
    LET j == FirstAt(s, 1, "=", "")
    IN IF j = 0 THEN <<s>>
       ELSE <<SubSeq(s, 1, j - 1), SubSeq(s, j + 1, Len(s))>>

DigitVal(c) ==
    CASE c = "0" -> 0 [] c = "1" -> 1 [] c = "2" -> 2 [] c = "3" -> 3
      [] c = "4" -> 4 [] c = "5" -> 5 [] c = "6" -> 6 [] c = "7" -> 7
      [] c = "8" -> 8 [] c = "9" -> 9

\* int(digits)
RECURSIVE ToInt(_)
ToInt(s) == IF s = <<>> THEN 0
            ELSE 10 * ToInt(SubSeq(s, 1, Len(s) - 1)) + DigitVal(s[Len(s)])

-----------------------------------------------------------------------------
(* Pattern.__parse: one segment to one info dictionary.                    *)

\* the info dictionary before the scan
InitInfo(recursive) ==
    [attrs |-> <<>>, name |-> <<>>, recursive |-> recursive, rank |-> NoRank]

Ok(info)        == [status |-> "ok", info |-> info, span |-> <<>>]
Raise(exc, sp)  == [status |-> exc, info |-> InitInfo(TRUE), span |-> sp]

\* the body of the for loop for one match: the info updated, or the
\* exception raised
ApplyMatch(info, s, m) ==
    IF m.lastgroup = "attrs" THEN
        \* line 70-71
        LET attr == SplitEq(StripQuotesBrackets(Group(s, m)))
            v    == IF Len(attr) = 1 THEN PyTrue ELSE PyStr(attr[2])
        IN Ok([info EXCEPT !.attrs = DictSet(@, attr[1], v)])
    ELSE IF m.lastgroup = "class" THEN
        \* line 73-74: lstrip('.') removes the one leading dot; setdefault
        \* returns whatever is stored under 'class', and only a list has
        \* append
        LET class_ == Tail(Group(s, m))
            key    == <<"c", "l", "a", "s", "s">>
            cur    == IF key \in DOMAIN info.attrs THEN info.attrs[key]
                      ELSE PyList(<<>>)
        IN IF cur.kind # "list" THEN Raise("AttributeError", <<>>)
           ELSE Ok([info EXCEPT
                      !.attrs = DictSet(@, key, PyList(Append(cur.list, class_)))])
    ELSE IF m.lastgroup = "id" THEN
        \* line 76
        Ok([info EXCEPT !.attrs = DictSet(@, <<"i", "d">>, PyStr(Tail(Group(s, m))))])
    ELSE IF m.lastgroup = "name" THEN
        \* line 78
        Ok([info EXCEPT !.name = Group(s, m)])
    ELSE
        \* line 80: strip('[]') then int
        Ok([info EXCEPT !.rank = ToInt(SubSeq(s, m.start + 1, m.end - 2))])

\* the for loop over the matches ms[i..]; ParseLoopAfter is given the
\* outcome r of the body for ms[i]
RECURSIVE ParseLoop(_, _, _, _), ParseLoopAfter(_, _, _, _)
ParseLoopAfter(r, s, ms, i) ==
    IF r.status # "ok" THEN r ELSE ParseLoop(r.info, s, ms, i + 1)

ParseLoop(info, s, ms, i) ==
    IF i > Len(ms) THEN Ok(info)
    ELSE ParseLoopAfter(ApplyMatch(info, s, ms[i]), s, ms, i)

\* lines 81-84, given the matches ms and the outcome r of the loop
HandleIllegal(s, ms, r) ==
    IF r.status # "ok" THEN r
    \* line 82-83: with last_match None the message's last_match.span()
    \* is an attribute access on None
    ELSE IF ms = <<>> THEN Raise("AttributeError", <<>>)
    ELSE IF Span(ms[Len(ms)])[2] # Len(s)
         THEN Raise("ValueError", Span(ms[Len(ms)]))
    ELSE r

\* lines 57-84, given the matches ms of the scanner
ParseMatches(s, ms, recursive) ==
    HandleIllegal(s, ms, ParseLoop(InitInfo(recursive), s, ms, 1))

\* Pattern.__parse(pattern, recursive)
ParseSegment(s, recursive) == ParseMatches(s, Matches(s, 1), recursive)

-----------------------------------------------------------------------------
(* Pattern.parse and Pattern.__init__.                                     *)

\* re.split(r'\s', pattern)
\* SplitAt is given the position j of the first whitespace character
RECURSIVE Split(_), SplitAt(_, _)
SplitAt(s, j) ==
    IF j = 0 THEN <<s>>
    ELSE <<SubSeq(s, 1, j - 1)>> \o Split(SubSeq(s, j + 1, Len(s)))

Split(s) == SplitAt(s, FirstIn(s, 1, Whitespace))

\* recursive=True if index == 0 or elts[index - 1] != '>' else False
\* (index is 1-based here)
RecursiveFlagNoIndexCheck(elts, index) ==
    elts[IF index = 1 THEN Len(elts) ELSE index - 1] # <<">">>

RecursiveFlag(elts, index) ==
    index = 1 \/ elts[index - 1] # <<">">>

\* tuple(Pattern.parse(pattern)) from element index on, chain so far acc;
\* ParseFromAfter is given the outcome r of __parse for elts[index]
RECURSIVE ParseFrom(_, _, _), ParseFromAfter(_, _, _, _)
ParseFromAfter(elts, index, acc, r) ==
    IF r.status # "ok"
    THEN [status |-> r.status, chain |-> <<>>, span |-> r.span]
    ELSE ParseFrom(elts, index + 1, Append(acc, r.info))

ParseFrom(elts, index, acc) ==
    IF index > Len(elts) THEN [status |-> "ok", chain |-> acc, span |-> <<>>]
    ELSE IF elts[index] = <<">">> THEN ParseFrom(elts, index + 1, acc)
    ELSE ParseFromAfter(elts, index, acc,
                        ParseSegment(elts[index], RecursiveFlag(elts, index)))

Parse(s) == ParseFrom(Split(s), 1, <<>>)

\* re.sub(r'\s+', ' ', pattern)
RECURSIVE CollapseWhitespace(_)
CollapseWhitespace(s) ==
    IF s = <<>> THEN <<>>
    ELSE IF Head(s) \in Whitespace
         THEN <<" ">> \o CollapseWhitespace(
                  SubSeq(s, RunEnd(s, 1, Whitespace), Len(s)))
    ELSE <<Head(s)>> \o CollapseWhitespace(Tail(s))

-----------------------------------------------------------------------------
(* The document and find_all.  Nodes are numbered in document order        *)
(* (pre-order); node 0 is the rootnode handed to update.                   *)

Str_div   == <<"d", "i", "v">>
Str_span  == <<"s", "p", "a", "n">>
Str_class == <<"c", "l", "a", "s", "s">>

\* the ancestors of node n, the root 0 among them
RECURSIVE Ancestors(_, _)
Ancestors(t, n) ==
    IF n = 0 THEN {} ELSE {t[n].parent} \cup Ancestors(t, t[n].parent)

\* one constraint of the attrs dictionary against a node: True asks for
\* the key to be there, a string for that value, a list for every one of
\* its tokens
AttrHolds(nd, key, want) ==
    /\ key \in DOMAIN nd.attrs
    /\ CASE want.kind = "bool" -> TRUE
         [] want.kind = "str"  -> nd.attrs[key] = <<want.str>>
         [] want.kind = "list" ->
              \A i \in 1..Len(want.list) :
                  \E j \in 1..Len(nd.attrs[key]) : nd.attrs[key][j] = want.list[i]

\* an empty name asks for no tag in particular
NodeMatches(nd, this) ==
    /\ this.name = <<>> \/ nd.name = this.name
    /\ \A key \in DOMAIN this.attrs : AttrHolds(nd, key, this.attrs[key])

\* the nodes of a set, in document order
RECURSIVE InOrder(_)
InOrder(S) ==
    IF S = {} THEN <<>>
    ELSE LET m == CHOOSE x \in S : \A y \in S : x <= y
         IN <<m>> \o InOrder(S \ {m})

\* parentnode.find_all(this['name'], attrs=this['attrs'],
\*                     recursive=this['recursive'])
FindAll(t, parentnode, this) ==
    InOrder({n \in 1..Len(t) :
               /\ IF this.recursive THEN parentnode \in Ancestors(t, n)
                                    ELSE t[n].parent = parentnode
               /\ NodeMatches(t[n], this)})

-----------------------------------------------------------------------------
(* Pattern.update: the generator __update(rootnode, 0).  A frame is one    *)
(* activation of __update suspended inside its loop: the nodes it still    *)
(* has to yield (terminal) or to descend into, and how far it got.         *)

\* entering __update(parentnode, index) with self.pattern = chain, for
\* index < len(chain): lines 120-135 up to the first yield or call
\* lines 123-135 given this and childnodes: what the activation will
\* yield (terminal) or descend into, in order
Branch(this, childnodes, index, terminal) ==
    [index    |-> index,
     terminal |-> terminal,
     items    |-> IF this.rank # NoRank
                  THEN IF this.rank < Len(childnodes)
                       THEN <<childnodes[this.rank + 1]>>
                       ELSE <<>>
                  ELSE childnodes,
     pos      |-> 1]

FrameRankAtTerminalOnly(t, chain, parentnode, index) ==
    Branch([chain[index + 1] EXCEPT
               !.rank = IF index = Len(chain) - 1 THEN @ ELSE NoRank],
           FindAll(t, parentnode, chain[index + 1]),
           index, index = Len(chain) - 1)

Frame(t, chain, parentnode, index) ==
    Branch(chain[index + 1], FindAll(t, parentnode, chain[index + 1]),
           index, index = Len(chain) - 1)

NoNode == -1

\* run the generator, whose suspended activations are stack, with the
\* activation __update(node, index) about to be entered when enter is
\* TRUE, until it yields, finishes or raises
RECURSIVE Run(_, _, _, _, _, _)
Run(t, chain, stack, enter, node, index) ==
    IF enter THEN
        \* line 120: self.pattern[index]
        IF index >= Len(chain)
        THEN [state |-> "raised", stack |-> <<>>, yielded |-> NoNode]
        ELSE Run(t, chain, Append(stack, Frame(t, chain, node, index)),
                 FALSE, NoNode, 0)
    ELSE IF stack = <<>>
        THEN [state |-> "done", stack |-> <<>>, yielded |-> NoNode]
    ELSE LET top  == stack[Len(stack)]
             rest == SubSeq(stack, 1, Len(stack) - 1)
         IN IF top.pos > Len(top.items)
            THEN Run(t, chain, rest, FALSE, NoNode, 0)
            ELSE LET adv == Append(rest, [top EXCEPT !.pos = @ + 1])
                 IN IF top.terminal
                    THEN [state |-> "suspended", stack |-> adv,
                          yielded |-> top.items[top.pos]]
                    ELSE Run(t, chain, adv, TRUE, top.items[top.pos],
                             top.index + 1)

-----------------------------------------------------------------------------
(* Inputs.                                                                  *)

\* the selector is typed from at most MaxPieces pieces of Pieces
MaxPieces == 5
\* the document holds at most MaxNodes nodes under the rootnode
MaxNodes == 4

Pieces ==
    { <<" ">>, <<">">>, <<"a">>, <<".", "a">>, <<"#", "a">>, <<"[", "1", "]">>,
      <<"[">> \o Str_class \o <<"=", "b", "]">>, <<"?">> }

Sp == <<" ">>
Gt == <<">">>

\* the selectors a Pattern is constructed from before it is matched
SelectorInputs ==
    { Str_div \o Sp \o Str_span,                          \* div span
      Str_div \o Sp \o Gt \o Sp \o Str_span,              \* div > span
      Str_div \o Sp \o Str_span \o <<"[", "1", "]">>,     \* div span[1]
      Str_div \o <<"[", "0", "]">> \o Sp \o Str_span,     \* div[0] span
      Str_div \o Sp \o Str_div,                           \* div div
      <<".", "a">>,                                       \* .a
      Gt }                                                \* >

\* the selectors later assigned to the pattern property
SetterInputs ==
    { Str_span,                                           \* span
      Str_div \o Sp \o Str_div \o Sp \o Str_span }        \* div div span

\* the kinds of node a document is built from
NodeKinds ==
    { [name |-> Str_div,  attrs |-> <<>>],
      [name |-> Str_span, attrs |-> DictSet(<<>>, Str_class, <<<<"a">>>>)] }

NoResult == [status |-> "none", chain |-> <<>>, span |-> <<>>]
NoGen    == [state |-> "none", stack |-> <<>>]

-----------------------------------------------------------------------------
(* Compiling: a selector is typed, then Pattern(text) is called.           *)

InitCompile ==
    /\ text = <<>> /\ npieces = 0 /\ phase = "typing"
    /\ result = NoResult /\ raw = <<>> /\ pattern = <<>>
    /\ tree = <<>> /\ gen = NoGen /\ out = <<>> /\ bound = <<>>
    /\ replaced = FALSE

Type(p) ==
    /\ phase = "typing" /\ npieces < MaxPieces
    /\ text' = text \o p
    /\ npieces' = npieces + 1
    /\ UNCHANGED <<phase, result, raw, pattern, tree, gen, out, bound, replaced>>

\* Pattern.__init__(text): an exception leaves no object behind
Construct ==
    /\ phase = "typing"
    /\ phase' = "compiled"
    /\ \E r \in {Parse(text)} :
         /\ result' = r
         /\ pattern' = IF r.status = "ok" THEN r.chain ELSE pattern
         /\ raw' = IF r.status = "ok" THEN CollapseWhitespace(text) ELSE raw
    /\ UNCHANGED <<text, npieces, tree, gen, out, bound, replaced>>

NextCompile == (\E p \in Pieces : Type(p)) \/ Construct

SpecCompile == InitCompile /\ [][NextCompile]_vars

-----------------------------------------------------------------------------
(* Matching: a constructed Pattern, a document, update and the pulls.      *)

Init ==
    /\ \E s \in SelectorInputs : \E r \in {Parse(s)} :
         /\ r.status = "ok"
         /\ text = s
         /\ result = r
         /\ pattern = r.chain
         /\ raw = CollapseWhitespace(s)
    /\ npieces = 0 /\ phase = "build"
    /\ tree = <<>> /\ gen = NoGen /\ out = <<>> /\ bound = <<>>
    /\ replaced = FALSE

\* the nodes a next node in document order can hang under: the last node
\* and its ancestors
OpenNodes(t) ==
    IF t = <<>> THEN {0} ELSE {Len(t)} \cup Ancestors(t, Len(t))

AddNode(parent, kind) ==
    /\ phase = "build" /\ Len(tree) < MaxNodes
    /\ parent \in OpenNodes(tree)
    /\ tree' = Append(tree, [parent |-> parent, name |-> kind.name,
                             attrs |-> kind.attrs])
    /\ UNCHANGED <<text, phase, result, raw, pattern, gen, out, bound,
                   replaced, npieces>>

\* update(rootnode): a generator object, not yet started
Update ==
    /\ phase = "build"
    /\ phase' = "iter"
    /\ gen' = [state |-> "created", stack |-> <<>>]
    /\ out' = <<>>
    /\ bound' = pattern
    /\ replaced' = FALSE
    /\ UNCHANGED <<text, result, raw, pattern, tree, npieces>>

\* next() on the generator
Pull ==
    /\ gen.state \in {"created", "suspended"}
    \* the first pull enters __update(rootnode, 0)
    /\ \E r \in {Run(tree, pattern, gen.stack, gen.state = "created", 0, 0)} :
          /\ gen' = [state |-> r.state, stack |-> r.stack]
          /\ out' = IF r.state = "suspended" THEN Append(out, r.yielded) ELSE out
    /\ UNCHANGED <<text, phase, result, raw, pattern, tree, bound, replaced,
                   npieces>>

\* the pattern setter: self.__pattern = tuple(Pattern.parse(newpat)); an
\* exception leaves the chain as it was.  The setter and the building of
\* the document do not touch each other's state, so the setter is run
\* before the first node is added or after update was called.
SetPattern(newpat) ==
    /\ phase = "iter" \/ (phase = "build" /\ tree = <<>>)
    /\ \E r \in {Parse(newpat)} :
         /\ pattern' = IF r.status = "ok" THEN r.chain ELSE pattern
         /\ replaced' = (replaced \/ (phase = "iter" /\ r.status = "ok"))
    /\ UNCHANGED <<text, phase, result, raw, tree, gen, out, bound, npieces>>

Next ==
    \/ \E parent \in 0..MaxNodes, kind \in NodeKinds : AddNode(parent, kind)
    \/ Update
    \/ Pull
    \/ \E newpat \in SetterInputs : SetPattern(newpat)

Spec == Init /\ [][Next]_vars

-----------------------------------------------------------------------------
(* What the claims speak of, read off the selector text and the document   *)
(* themselves.                                                              *)

\* the positions at which a whitespace-separated, non-empty token starts
TokenStarts(s) ==
    {p \in 1..Len(s) : s[p] \notin Whitespace
                        /\ (p = 1 \/ s[p - 1] \in Whitespace)}

\* the token that starts at p
TokenAt(s, p) ==
    LET j == FirstIn(s, p, Whitespace)
    IN SubSeq(s, p, IF j = 0 THEN Len(s) ELSE j - 1)

\* the starts of the tokens other than the combinator, in order
SegmentStarts(s) == InOrder({p \in TokenStarts(s) : TokenAt(s, p) # Gt})

\* the token immediately before position p is the combinator: ">", one
\* whitespace character, then p
PrecededByCombinator(s, p) ==
    /\ p >= 3
    /\ s[p - 1] \in Whitespace
    /\ s[p - 2] = ">"
    /\ (p = 3 \/ s[p - 3] \in Whitespace)

\* how far the sub-token grammars cover a segment (0-based end offset)
Covered(seg) ==
    LET ms == Matches(seg, 1)
    IN IF ms = <<>> THEN 0 ELSE ms[Len(ms)].end - 1

\* the .class sub-tokens of a segment, in order, without their dots
ClassTokens(seg) ==
    LET ms  == Matches(seg, 1)
        idx == InOrder({i \in 1..Len(ms) : ms[i].lastgroup = "class"})
    IN [k \in 1..Len(idx) |-> Tail(Group(seg, ms[idx[k]]))]

\* the text is one segment: no whitespace in it, and not the combinator
OneSegment(s) == FirstIn(s, 1, Whitespace) = 0 /\ s # Gt

IsPrefix(a, b) == Len(a) <= Len(b) /\ a = SubSeq(b, 1, Len(a))

RECURSIVE Flatten(_)
Flatten(ss) == IF ss = <<>> THEN <<>> ELSE Head(ss) \o Flatten(Tail(ss))

\* the nodes a chain selects under node from segment i (0-based) on: at
\* each segment the candidate at index rank, if there is one, or every
\* candidate when the segment has no rank
RECURSIVE Selected(_, _, _, _)
Selected(t, chain, node, i) ==
    LET this       == chain[i + 1]
        candidates == FindAll(t, node, this)
        kept       == IF this.rank = NoRank THEN candidates
                      ELSE IF this.rank < Len(candidates)
                           THEN <<candidates[this.rank + 1]>>
                           ELSE <<>>
    IN IF i = Len(chain) - 1 THEN kept
       ELSE Flatten([k \in 1..Len(kept) |-> Selected(t, chain, kept[k], i + 1)])

\* the pulls so far are those of a match with chain, and it has not raised
Follows(chain) ==
    /\ gen.state # "raised"
    /\ IsPrefix(out, Selected(tree, chain, 0, 0))
    /\ gen.state = "done" => out = Selected(tree, chain, 0, 0)

\* update was called and the chain has not been replaced since
Uninterrupted == phase = "iter" /\ ~replaced

-----------------------------------------------------------------------------
(* The claims.                                                              *)

\* C1: with a non-empty chain left in place, the nodes pulled are exactly
\* those the chain selects when a segment with rank r keeps only the
\* candidate at zero-based index r (none when r is not below the number of
\* candidates) and a segment without rank keeps every candidate in order.
C1_RankSelection ==
    (Uninterrupted /\ bound # <<>>) => Follows(bound)

\* C1 witness: a finished match whose terminal segment has rank 1 and
\* yielded the second of at least two candidates.
C1_Witness ==
    /\ Uninterrupted /\ gen.state = "done"
    /\ bound # <<>> /\ bound[Len(bound)].rank = 1
    /\ out # <<>>

\* C2 as amended: in a chain that compiled, a segment's recursive flag is
\* false exactly when the token immediately before it is ">", whether or
\* not it is the first segment.
C2_RecursiveFlag ==
    (phase = "compiled" /\ result.status = "ok") =>
        /\ Len(result.chain) = Len(SegmentStarts(text))
        /\ \A k \in 1..Len(result.chain) :
              result.chain[k].recursive
                  = ~PrecededByCombinator(text, SegmentStarts(text)[k])

\* C2 witness: a compiled chain whose first segment is recursive and which
\* has a later segment that follows a ">" and is not.
C2_Witness ==
    /\ phase = "compiled" /\ result.status = "ok"
    /\ Len(result.chain) >= 2
    /\ result.chain[1].recursive
    /\ ~result.chain[2].recursive

\* C2 as stated: as above, and the first segment of the chain always has
\* recursive = true.
C2_FirstSegmentRecursive ==
    (phase = "compiled" /\ result.status = "ok") =>
        /\ \A k \in 1..Len(result.chain) :
              result.chain[k].recursive
                  = ~PrecededByCombinator(text, SegmentStarts(text)[k])
        /\ result.chain # <<>> => result.chain[1].recursive

\* C3: the nodes pulled from an uninterrupted match come in document
\* order: none is pulled after a node that comes later in the document.
C3_DocumentOrder ==
    Uninterrupted =>
        \A i, j \in 1..Len(out) : i < j => out[i] <= out[j]

\* C4: compiling a segment the sub-token grammars do not cover to its end
\* (nothing matching at position 0 included) fails with the syntax error,
\* carrying the offset the scan stopped at.
C4_SyntaxErrorWithSpan ==
    (phase = "compiled" /\ OneSegment(text) /\ Covered(text) < Len(text)
       /\ text # <<>>) =>
        /\ result.status = "ValueError"
        /\ result.span # <<>> /\ result.span[2] = Covered(text)

\* C5: a selector holding at least one segment, all of whose segments are
\* well-formed, compiles whatever runs of whitespace separate or surround
\* its tokens, to a chain with one element per segment.
C5_WhitespaceRuns ==
    (/\ phase = "compiled"
     /\ SegmentStarts(text) # <<>>
     /\ \A k \in 1..Len(SegmentStarts(text)) :
           ParseSegment(TokenAt(text, SegmentStarts(text)[k]), TRUE).status = "ok")
    => /\ result.status = "ok"
       /\ Len(result.chain) = Len(SegmentStarts(text))

\* C6: a match with a chain that compile produced, left in place, never
\* raises.
C6_MatchNeverRaises ==
    Uninterrupted => gen.state # "raised"

\* C7: a chain produced by a successful compile has at least one element,
\* one per non-combinator token.
C7_ChainNonEmpty ==
    (phase = "compiled" /\ result.status = "ok") =>
        /\ Len(result.chain) >= 1
        /\ Len(result.chain) = Len(SegmentStarts(text))

\* C8: an uninterrupted match yields at most as many nodes as the tree
\* rooted at rootnode has (the rootnode counted).
C8_AtMostTreeSize ==
    Uninterrupted => Len(out) <= Len(tree) + 1

\* C9: a segment made of well-formed sub-tokens, .class sub-tokens among
\* them, compiles, and its class constraint is the list of those .class
\* sub-tokens in order.
C9_ClassAccumulates ==
    (/\ phase = "compiled" /\ OneSegment(text)
     /\ text # <<>> /\ Covered(text) = Len(text)
     /\ ClassTokens(text) # <<>>)
    => /\ result.status = "ok"
       /\ Str_class \in DOMAIN result.chain[1].attrs
       /\ result.chain[1].attrs[Str_class] = PyList(ClassTokens(text))

\* C10: the sequence obtained from update follows the chain that was in
\* place when update was called, whatever the setter does afterwards, and
\* no pull raises.
C10_BoundAtUpdate ==
    (phase = "iter" /\ bound # <<>>) => Follows(bound)

====
